---- MODULE Spec2Model ----
(***************************************************************************)
(* Handfat ROI-kalkylator: the React component HandfatROIKalkylator of     *)
(* src/app/page.tsx (the variant in src/unnamed/part_000 has the same      *)
(* clamp, toNum, calc, parsed and safetyNotes and replaces some text       *)
(* fields by sliders).                                                     *)
(*                                                                         *)
(* The component holds one piece of state, the raw form `state`; `parsed`, *)
(* `result` and `safetyNotes` are recomputed from it on every render.      *)
(*                                                                         *)
(* Numbers.  The program computes in IEEE-754 doubles.  Here a number is   *)
(* NaN or an exact rational sgn * num / den, with num and den naturals of  *)
(* arbitrary size (beyond 32-bit integers: sequences of                    *)
(* base-1000 limbs, least significant first), so no product ever wraps.    *)
(* The range of a double is modelled: a result too large is an infinity,   *)
(* a result too small is 0.  Its precision (the rounding to 53 bits) and   *)
(* the sign of zero are not.                                               *)
(***************************************************************************)
EXTENDS Integers, Sequences, FiniteSets, TLC

(***************************************************************************)
(* Natural numbers of arbitrary size.                                      *)
(***************************************************************************)
Base == 10 * 100

RECURSIVE ToLimbs(_)
ToLimbs(i) == IF i = 0 THEN <<>> ELSE <<i % Base>> \o ToLimbs(i \div Base)

Limb(a, i) == IF i <= Len(a) THEN a[i] ELSE 0

\* the limbs lo..hi of the column sums s with the carry c added, and the
\* carry out of them: <<limbs, carry>>
RECURSIVE CarryOver(_, _, _, _)
CarryOver(s, lo, hi, c) ==
  IF lo = hi THEN <<<<(s[lo] + c) % Base>>, (s[lo] + c) \div Base>>
  ELSE LET mid == (lo + hi) \div 2
           low == CarryOver(s, lo, mid, c)
           high == CarryOver(s, mid + 1, hi, low[2])
       IN  <<low[1] \o high[1], high[2]>>

\* the number whose columns sum to s
Carry(s) ==
  IF s = <<>> THEN <<>>
  ELSE LET r == CarryOver(s, 1, Len(s), 0) IN r[1] \o ToLimbs(r[2])

NatAdd(a, b) ==
  LET n == IF Len(a) > Len(b) THEN Len(a) ELSE Len(b)
  IN  Carry([i \in 1..n |-> Limb(a, i) + Limb(b, i)])

\* the place of the highest limb of a[lo..hi] that is not 0, or 0
RECURSIVE TopLimb(_, _, _)
TopLimb(a, lo, hi) ==
  IF lo = hi THEN (IF a[lo] # 0 THEN lo ELSE 0)
  ELSE LET mid == (lo + hi) \div 2
           top == TopLimb(a, mid + 1, hi)
       IN  IF top # 0 THEN top ELSE TopLimb(a, lo, mid)

Trim(a) == IF a = <<>> THEN a ELSE SubSeq(a, 1, TopLimb(a, 1, Len(a)))

\* the limbs lo..hi of a - b with the borrow c taken, and the borrow out
RECURSIVE BorrowOver(_, _, _, _, _)
BorrowOver(a, b, lo, hi, c) ==
  IF lo = hi
  THEN LET x == a[lo] - Limb(b, lo) - c
       IN  IF x < 0 THEN <<<<x + Base>>, 1>> ELSE <<<<x>>, 0>>
  ELSE LET mid == (lo + hi) \div 2
           low == BorrowOver(a, b, lo, mid, c)
           high == BorrowOver(a, b, mid + 1, hi, low[2])
       IN  <<low[1] \o high[1], high[2]>>

\* a - b for a >= b
NatSub(a, b) == IF a = <<>> THEN a ELSE Trim(BorrowOver(a, b, 1, Len(a), 0)[1])

\* -1, 0 or 1 as a[lo..hi] < b[lo..hi], =, >
RECURSIVE CmpOver(_, _, _, _)
CmpOver(a, b, lo, hi) ==
  IF lo = hi THEN (IF a[lo] < b[lo] THEN -1 ELSE IF a[lo] > b[lo] THEN 1 ELSE 0)
  ELSE LET mid == (lo + hi) \div 2
           top == CmpOver(a, b, mid + 1, hi)
       IN  IF top # 0 THEN top ELSE CmpOver(a, b, lo, mid)

\* -1, 0 or 1 as a < b, a = b, a > b
NatCmp(a, b) ==
  IF Len(a) < Len(b) THEN -1
  ELSE IF Len(a) > Len(b) THEN 1
  ELSE IF a = <<>> THEN 0
  ELSE CmpOver(a, b, 1, Len(a))

\* the sum of a[i] * b[k + 1 - i] for i in lo..hi
RECURSIVE ColSum(_, _, _, _, _)
ColSum(a, b, k, lo, hi) ==
  IF lo > hi THEN 0
  ELSE IF lo = hi THEN a[lo] * b[k + 1 - lo]
  ELSE LET mid == (lo + hi) \div 2
       IN  ColSum(a, b, k, lo, mid) + ColSum(a, b, k, mid + 1, hi)

NatMul(a, b) ==
  IF a = <<>> \/ b = <<>> THEN <<>>
  ELSE IF a = <<1>> THEN b
  ELSE IF b = <<1>> THEN a
  ELSE Carry([k \in 1..(Len(a) + Len(b) - 1) |->
                ColSum(a, b, k,
                       IF k + 1 - Len(b) > 1 THEN k + 1 - Len(b) ELSE 1,
                       IF k < Len(a) THEN k ELSE Len(a))])

(***************************************************************************)
(* JavaScript numbers: NaN, +Infinity and -Infinity (sgn * 1 / 0), or the   *)
(* rational sgn * num / den (den > 0).  While num and den are below MaxInt *)
(* they are integers in lowest terms (big = FALSE); beyond it they are     *)
(* limb sequences (big = TRUE).  The same number can have more than one    *)
(* representation, so numbers are compared with NumEq, Lt, ..., never      *)
(* with =.                                                                 *)
(*                                                                         *)
(* A double has a range: the result of an operation whose magnitude is at  *)
(* least 2^1024 - 2^970 is an infinity, and one whose magnitude is at most *)
(* 2^-1075 is 0 (Range).  Inside the range the result is kept exact: the   *)
(* 53 bits of precision and the sign of zero are not modelled.             *)
(***************************************************************************)
MaxInt == 46340 * 46340

RECURSIVE GCD(_, _)
GCD(a, b) == IF b = 0 THEN a ELSE GCD(b, a % b)

\* a * b and a + b stay below MaxInt (a, b >= 0)
FitsMul(a, b) == a = 0 \/ b <= MaxInt \div a
FitsAdd(a, b) == a <= MaxInt - b

\* the limb sequence a is below MaxInt, and its value
FitsInt(a) == Len(a) <= 3 \/ (Len(a) = 4 /\ a[4] <= 1)
ToInt(a) ==
  Limb(a, 1) + Base * Limb(a, 2) + Base * Base * Limb(a, 3)
    + Base * Base * Base * Limb(a, 4)

NaN == [nan |-> TRUE, sgn |-> 0, big |-> FALSE, num |-> 0, den |-> 1]

Zero == [nan |-> FALSE, sgn |-> 0, big |-> FALSE, num |-> 0, den |-> 1]

\* sgn * n / d for integers n >= 0, d > 0
MkSmall(s, n, d) ==
  IF n = 0 \/ s = 0 THEN Zero
  ELSE LET g == GCD(n, d)
       IN  [nan |-> FALSE, sgn |-> s, big |-> FALSE, num |-> n \div g, den |-> d \div g]

\* +Infinity (s = 1) and -Infinity (s = -1)
Infinity(s) == [nan |-> FALSE, sgn |-> s, big |-> FALSE, num |-> 1, den |-> 0]

IsInf(x) == ~x.nan /\ ~x.big /\ x.den = 0

\* b^n
RECURSIVE NatPow(_, _)
NatPow(b, n) ==
  IF n = 0 THEN <<1>>
  ELSE IF n % 2 = 0 THEN LET h == NatPow(b, n \div 2) IN NatMul(h, h)
  ELSE NatMul(b, NatPow(b, n - 1))

\* the least magnitude that rounds to an infinity: Number.MAX_VALUE plus
\* half of its last place, 2^1024 - 2^970
OverflowAt == NatMul(NatPow(<<2>>, 970), NatSub(NatPow(<<2>>, 54), <<1>>))

\* 1 / UnderflowAt is the greatest magnitude that rounds to 0: half of
\* Number.MIN_VALUE, 2^-1075
UnderflowAt == NatPow(<<2>>, 1075)

\* a quotient n / d of limb sequences whose lengths differ by less than
\* RangeLimbs lies between 10^-300 and 10^300, inside the range
RangeLimbs == 10 * 10

\* the double for the exact sgn * n / d (n, d limb sequences, not zero)
Range(s, n, d) ==
  IF Len(n) >= Len(d) + RangeLimbs /\ NatCmp(n, NatMul(d, OverflowAt)) >= 0
  THEN Infinity(s)
  ELSE IF Len(d) >= Len(n) + RangeLimbs /\ NatCmp(NatMul(n, UnderflowAt), d) <= 0
  THEN Zero
  ELSE [nan |-> FALSE, sgn |-> s, big |-> TRUE, num |-> n, den |-> d]

\* sgn * n / d for limb sequences n, d
MkBig(s, n, d) ==
  IF n = <<>> \/ s = 0 THEN Zero
  ELSE IF FitsInt(n) /\ FitsInt(d) THEN MkSmall(s, ToInt(n), ToInt(d))
  ELSE Range(s, n, d)

NumLimbs(x) == IF x.big THEN x.num ELSE ToLimbs(x.num)
DenLimbs(x) == IF x.big THEN x.den ELSE ToLimbs(x.den)

\* the integer i
Num(i) == IF i < 0 THEN MkSmall(-1, 0 - i, 1) ELSE MkSmall(1, i, 1)

\* Number.isNaN
IsNaN(x) == x.nan

\* Number.isFinite
isFinite(x) == ~x.nan /\ ~IsInf(x)

\* -1, 0 or 1 as x < y, x = y, x > y, for x and y not NaN
Cmp(x, y) ==
  IF x.sgn # y.sgn THEN (IF x.sgn < y.sgn THEN -1 ELSE 1)
  ELSE IF x.sgn = 0 THEN 0
  ELSE IF IsInf(x) THEN (IF IsInf(y) THEN 0 ELSE x.sgn)
  ELSE IF IsInf(y) THEN 0 - y.sgn
  ELSE IF ~x.big /\ ~y.big /\ FitsMul(x.num, y.den) /\ FitsMul(y.num, x.den)
  THEN LET a == x.num * y.den
           b == y.num * x.den
       IN  IF a = b THEN 0 ELSE IF a < b THEN 0 - x.sgn ELSE x.sgn
  ELSE x.sgn * NatCmp(NatMul(NumLimbs(x), DenLimbs(y)), NatMul(NumLimbs(y), DenLimbs(x)))

\* the comparisons of the language: every comparison with NaN is false
Lt(x, y) == ~x.nan /\ ~y.nan /\ Cmp(x, y) < 0
Le(x, y) == ~x.nan /\ ~y.nan /\ Cmp(x, y) <= 0
Gt(x, y) == ~x.nan /\ ~y.nan /\ Cmp(x, y) > 0
Ge(x, y) == ~x.nan /\ ~y.nan /\ Cmp(x, y) >= 0
\* x === y on numbers
NumEq(x, y) == ~x.nan /\ ~y.nan /\ Cmp(x, y) = 0

Neg(x) == IF x.nan THEN NaN ELSE [x EXCEPT !.sgn = 0 - x.sgn]

AddBig(x, y) ==
  LET d == NatMul(DenLimbs(x), DenLimbs(y))
      a == NatMul(NumLimbs(x), DenLimbs(y))
      b == NatMul(NumLimbs(y), DenLimbs(x))
      c == NatCmp(a, b)
  IN  IF x.sgn = y.sgn THEN MkBig(x.sgn, NatAdd(a, b), d)
      ELSE IF c = 0 THEN Zero
      ELSE IF c > 0 THEN MkBig(x.sgn, NatSub(a, b), d)
      ELSE MkBig(y.sgn, NatSub(b, a), d)

Add(x, y) ==
  IF x.nan \/ y.nan THEN NaN
  ELSE IF IsInf(x) THEN (IF IsInf(y) /\ x.sgn # y.sgn THEN NaN ELSE x)
  ELSE IF IsInf(y) THEN y
  ELSE IF x.sgn = 0 THEN y
  ELSE IF y.sgn = 0 THEN x
  ELSE IF x.big \/ y.big THEN AddBig(x, y)
  ELSE LET g == GCD(x.den, y.den)
           p == y.den \div g
           q == x.den \div g
       IN  IF FitsMul(x.num, p) /\ FitsMul(y.num, q) /\ FitsMul(x.den, p)
              /\ FitsAdd(x.num * p, y.num * q)
           THEN LET a == x.num * p
                    b == y.num * q
                IN  IF x.sgn = y.sgn THEN MkSmall(x.sgn, a + b, x.den * p)
                    ELSE IF a = b THEN Zero
                    ELSE IF a > b THEN MkSmall(x.sgn, a - b, x.den * p)
                    ELSE MkSmall(y.sgn, b - a, x.den * p)
           ELSE AddBig(x, y)

Sub(x, y) == Add(x, Neg(y))

MulBig(x, y) ==
  MkBig(x.sgn * y.sgn, NatMul(NumLimbs(x), NumLimbs(y)), NatMul(DenLimbs(x), DenLimbs(y)))

Mul(x, y) ==
  IF x.nan \/ y.nan THEN NaN
  ELSE IF IsInf(x) \/ IsInf(y)
  THEN (IF x.sgn = 0 \/ y.sgn = 0 THEN NaN ELSE Infinity(x.sgn * y.sgn))
  ELSE IF x.sgn = 0 \/ y.sgn = 0 THEN Zero
  ELSE IF x.big \/ y.big THEN MulBig(x, y)
  ELSE LET g == GCD(x.num, y.den)
           h == GCD(y.num, x.den)
           a == x.num \div g
           b == y.num \div h
           c == x.den \div h
           d == y.den \div g
       IN  IF FitsMul(a, b) /\ FitsMul(c, d)
           THEN [nan |-> FALSE, sgn |-> x.sgn * y.sgn, big |-> FALSE,
                 num |-> a * b, den |-> c * d]
           ELSE MulBig(x, y)

\* x / y (a zero divisor is +0: the sign of zero is not modelled)
Div(x, y) ==
  IF x.nan \/ y.nan THEN NaN
  ELSE IF IsInf(y) THEN (IF IsInf(x) THEN NaN ELSE Zero)
  ELSE IF IsInf(x) THEN Infinity(IF y.sgn < 0 THEN 0 - x.sgn ELSE x.sgn)
  ELSE IF y.sgn = 0 THEN (IF x.sgn = 0 THEN NaN ELSE Infinity(x.sgn))
  ELSE Mul(x, [y EXCEPT !.num = y.den, !.den = y.num])

\* Math.max and Math.min: NaN when an argument is NaN
MathMax(x, y) == IF x.nan \/ y.nan THEN NaN ELSE IF Cmp(x, y) >= 0 THEN x ELSE y
MathMin(x, y) == IF x.nan \/ y.nan THEN NaN ELSE IF Cmp(x, y) <= 0 THEN x ELSE y

RECURSIVE Pow10(_)
Pow10(k) == IF k = 0 THEN Num(1) ELSE Mul(Num(10), Pow10(k - 1))

\* the decimal i / 10^k, e.g. Decimal(80592, 1) is 8059.2
Decimal(i, k) == Div(Num(i), Pow10(k))

(***************************************************************************)
(* Raw field values: a string (here the sequence of its characters) or a   *)
(* number.  Characters outside Digits, "+", "-", ".", ",", "e", "E" and    *)
(* " " stand for any character that is no part of a numeric literal ("a"). *)
(***************************************************************************)
RawText(t) == [type |-> "string", text |-> t, num |-> Zero]
RawNumber(x) == [type |-> "number", text |-> <<>>, num |-> x]

Digits == {"0", "1", "2", "3", "4", "5", "6", "7", "8", "9"}

DigitVal(c) ==
  CASE c = "0" -> 0 [] c = "1" -> 1 [] c = "2" -> 2 [] c = "3" -> 3
    [] c = "4" -> 4 [] c = "5" -> 5 [] c = "6" -> 6 [] c = "7" -> 7
    [] c = "8" -> 8 [] c = "9" -> 9

IsDigit(c) == c \in Digits
NotSpace(c) == c # " "

\* v.replace(/\s/g, "")
StripWhitespace(t) == SelectSeq(t, NotSpace)

\* x.replace(",", "."): the first comma only
ReplaceFirstComma(t) ==
  LET commas == {i \in 1..Len(t) : t[i] = ","}
  IN  IF commas = {} THEN t
      ELSE [t EXCEPT ![CHOOSE i \in commas : \A j \in commas : i <= j] = "."]

\* the value of the first n digits of ds, read as a decimal integer
RECURSIVE DigitsToNat(_, _)
DigitsToNat(ds, n) ==
  IF n = 0 THEN <<>>
  ELSE NatAdd(NatMul(DigitsToNat(ds, n - 1), <<10>>), ToLimbs(DigitVal(ds[n])))

\* Number(x) for a string x without whitespace: "" is 0; an optional sign,
\* then digits with at most one "." and at least one digit, then an
\* optional exponent ("e" or "E", an optional sign, digits); anything else
\* is NaN.  The value is the double for the decimal that is written.
\* (Hex literals and "Infinity" need characters that the texts drawn here
\* do not contain.  An exponent beyond 2000 is read as 2000, which gives
\* the same double for a mantissa of less than 1000 characters.)
StringToNumber(x) ==
  IF x = <<>> THEN Zero
  ELSE LET signed == x[1] \in {"+", "-"}
           body == IF signed THEN Tail(x) ELSE x
           marks == {i \in 1..Len(body) : body[i] \in {"e", "E"}}
           mark == IF marks = {} THEN Len(body) + 1
                   ELSE CHOOSE i \in marks : \A j \in marks : i <= j
           mantissa == SubSeq(body, 1, mark - 1)
           exponent == SubSeq(body, mark + 1, Len(body))
           expSigned == exponent # <<>> /\ exponent[1] \in {"+", "-"}
           expDigits == IF expSigned THEN Tail(exponent) ELSE exponent
           dots == {i \in 1..Len(mantissa) : mantissa[i] = "."}
           digits == SelectSeq(mantissa, IsDigit)
           wellFormed ==
             /\ \A i \in 1..Len(mantissa) : mantissa[i] \in Digits \cup {"."}
             /\ Cardinality(dots) <= 1
             /\ Len(digits) >= 1
             /\ marks # {} =>
                  /\ Len(expDigits) >= 1
                  /\ \A i \in 1..Len(expDigits) : expDigits[i] \in Digits
           fracLen == IF dots = {} THEN 0
                      ELSE Len(mantissa) - (CHOOSE i \in dots : TRUE)
           expNat == DigitsToNat(expDigits, Len(expDigits))
           expAbs == IF Len(expNat) <= 1 \/ (Len(expNat) = 2 /\ expNat[2] < 2)
                     THEN ToInt(expNat) ELSE 2000
           scale == (IF expSigned /\ exponent[1] = "-" THEN 0 - expAbs ELSE expAbs)
                      - fracLen
           m == DigitsToNat(digits, Len(digits))
       IN  IF ~wellFormed THEN NaN
           ELSE IF scale >= 0
           THEN MkBig(IF x[1] = "-" THEN -1 ELSE 1, NatMul(m, NatPow(<<10>>, scale)), <<1>>)
           ELSE MkBig(IF x[1] = "-" THEN -1 ELSE 1, m, NatPow(<<10>>, 0 - scale))

\* clamp without its first line: NaN is not caught
clamp_NoNaNCheck(n, min, max) == MathMin(max, MathMax(min, n))

clamp(n, min, max) ==
  IF IsNaN(n) THEN min ELSE MathMin(max, MathMax(min, n))

\* the empty text read as 1, not as 0
toNum_BlankAsOne(v) ==
  LET n == IF v.type = "string"
           THEN (IF StripWhitespace(v.text) = <<>> THEN Num(1)
                 ELSE StringToNumber(ReplaceFirstComma(StripWhitespace(v.text))))
           ELSE v.num
  IN  IF isFinite(n) THEN n ELSE NaN

toNum(v) ==
  LET n == IF v.type = "string"
           THEN StringToNumber(ReplaceFirstComma(StripWhitespace(v.text)))
           ELSE v.num
  IN  IF isFinite(n) THEN n ELSE NaN

(***************************************************************************)
(* calc, one operator per constant of its body.                            *)
(***************************************************************************)
occupancy(occupancyPct) == clamp(Div(occupancyPct, Num(100)), Num(0), Num(1))

\* the occupancy is left out
bedDays_FullOccupancy(beds, occ) == Mul(beds, Num(365))

bedDays(beds, occ) == Mul(Mul(beds, Num(365)), occ)

\* the rate taken per bed-day, not per 1000 bed-days
vriFromRate_PerBedDay(vriPer1000BedDays, bd) == Mul(vriPer1000BedDays, bd)

vriFromRate(vriPer1000BedDays, bd) == Mul(Div(vriPer1000BedDays, Num(1000)), bd)

usedOverride(vriPerYearOverride) ==
  isFinite(vriPerYearOverride) /\ Gt(vriPerYearOverride, Num(0))

\* the rate wins whenever it yields a positive count
vri_RateFirst(vriPerYearOverride, fromRate) ==
  IF Gt(fromRate, Num(0)) THEN fromRate
  ELSE IF isFinite(vriPerYearOverride) /\ Gt(vriPerYearOverride, Num(0))
  THEN vriPerYearOverride ELSE fromRate

\* the override is taken whenever it is not zero
vri_NonZero(vriPerYearOverride, fromRate) ==
  IF isFinite(vriPerYearOverride) /\ ~NumEq(vriPerYearOverride, Num(0))
  THEN vriPerYearOverride ELSE fromRate

vri(vriPerYearOverride, fromRate) ==
  IF isFinite(vriPerYearOverride) /\ Gt(vriPerYearOverride, Num(0))
  THEN vriPerYearOverride ELSE fromRate

\* the percentage taken for a fraction
gramNeg_AsFraction(v, gramNegPct) == Mul(v, gramNegPct)

gramNeg(v, gramNegPct) == Mul(v, Div(gramNegPct, Num(100)))

sinkGramNeg(gn, sinkAttributablePct) == Mul(gn, Div(sinkAttributablePct, Num(100)))

\* the infections that remain instead of those avoided
avoided_Remaining(sink, effectPct) ==
  Mul(sink, Sub(Num(1), Div(effectPct, Num(100))))

avoided(sink, effectPct) == Mul(sink, Div(effectPct, Num(100)))

savedBedDays(av, extraDaysPerVRI) == Mul(av, extraDaysPerVRI)

\* the two branches exchanged
savedSEK_Swapped(pricingMode, av, sbd, costPerVRI, costPerBedDay) ==
  IF pricingMode = "perVRI" THEN Mul(sbd, costPerBedDay) ELSE Mul(av, costPerVRI)

savedSEK(pricingMode, av, sbd, costPerVRI, costPerBedDay) ==
  IF pricingMode = "perVRI" THEN Mul(av, costPerVRI) ELSE Mul(sbd, costPerBedDay)

\* the capital cost is not spread over the amortization period
annualizedCapex_Whole(capex, capexAmortYears) == capex

annualizedCapex(capex, capexAmortYears) ==
  IF Gt(capexAmortYears, Num(0)) THEN Div(capex, capexAmortYears) ELSE capex

\* the operating cost is left out
annualCost_CapexOnly(ac, opexYear) == ac

annualCost(ac, opexYear) == Add(ac, opexYear)

net(sek, cost) == Sub(sek, cost)

roi(n, cost) == IF Gt(cost, Num(0)) THEN Div(n, cost) ELSE NaN

\* >= for >: payback is defined when the savings equal the operating cost
paybackYears_AtEqual(sek, opexYear, capex) ==
  IF Ge(sek, opexYear) THEN Div(capex, MathMax(Num(1), Sub(sek, opexYear))) ELSE NaN

\* the divisor without its floor of 1
paybackYears_Unguarded(sek, opexYear, capex) ==
  IF Gt(sek, opexYear) THEN Div(capex, Sub(sek, opexYear)) ELSE NaN

\* 0 where payback is undefined
paybackYears_ZeroWhenUndefined(sek, opexYear, capex) ==
  IF Gt(sek, opexYear) THEN Div(capex, MathMax(Num(1), Sub(sek, opexYear))) ELSE Num(0)

paybackYears(sek, opexYear, capex) ==
  IF Gt(sek, opexYear) THEN Div(capex, MathMax(Num(1), Sub(sek, opexYear))) ELSE NaN

\* the reverse rate without its guard on bedDays
vriPer1000_Unguarded(v, bd) == Mul(Div(v, bd), Num(1000))

vriPer1000(v, bd) == IF Gt(bd, Num(0)) THEN Mul(Div(v, bd), Num(1000)) ELSE NaN

calc(p) ==
  LET occ == occupancy(p.occupancyPct)
      bd == bedDays(p.beds, occ)
      fromRate == vriFromRate(p.vriPer1000BedDays, bd)
      v == vri(p.vriPerYearOverride, fromRate)
      gn == gramNeg(v, p.gramNegPct)
      sink == sinkGramNeg(gn, p.sinkAttributablePct)
      av == avoided(sink, p.effectPct)
      sbd == savedBedDays(av, p.extraDaysPerVRI)
      sek == savedSEK(p.pricingMode, av, sbd, p.costPerVRI, p.costPerBedDay)
      cost == annualCost(annualizedCapex(p.capex, p.capexAmortYears), p.opexYear)
      n == net(sek, cost)
  IN  [bedDays |-> bd,
       vri |-> v,
       vriPer1000 |-> vriPer1000(v, bd),
       gramNeg |-> gn,
       sinkGramNeg |-> sink,
       avoided |-> av,
       savedBedDays |-> sbd,
       savedSEK |-> sek,
       annualCost |-> cost,
       net |-> n,
       roi |-> roi(n, cost),
       paybackYears |-> paybackYears(sek, p.opexYear, p.capex),
       usedOverride |-> usedOverride(p.vriPerYearOverride),
       vriFromRate |-> fromRate]

(***************************************************************************)
(* The form.                                                               *)
(***************************************************************************)
defaults ==
  [beds |-> RawNumber(Num(24)),
   occupancyPct |-> RawNumber(Num(92)),
   alosDays |-> RawNumber(Num(4)),
   vriPer1000BedDays |-> RawNumber(Num(6)),
   vriPerYearOverride |-> RawText(<<>>),
   gramNegPct |-> RawNumber(Num(35)),
   sinkAttributablePct |-> RawNumber(Num(10)),
   effectPct |-> RawNumber(Num(10)),
   extraDaysPerVRI |-> RawNumber(Num(5)),
   costPerBedDay |-> RawNumber(Num(12000)),
   costPerVRI |-> RawNumber(Num(90000)),
   pricingMode |-> "bedDays",
   capex |-> RawNumber(Num(350000)),
   opexYear |-> RawNumber(Num(25000)),
   capexAmortYears |-> RawNumber(Num(5))]

scenarios == [conservative |-> 5, low |-> 10, ambitious |-> 20]

\* parsed: the normalized input
normalize(s) ==
  LET vriOverride == toNum(s.vriPerYearOverride)
  IN  [beds |-> clamp(toNum(s.beds), Num(0), Num(2000)),
       occupancyPct |-> clamp(toNum(s.occupancyPct), Num(0), Num(100)),
       alosDays |-> clamp(toNum(s.alosDays), Num(0), Num(365)),
       vriPer1000BedDays |-> clamp(toNum(s.vriPer1000BedDays), Num(0), Num(200)),
       vriPerYearOverride |-> IF isFinite(vriOverride) THEN vriOverride ELSE NaN,
       gramNegPct |-> clamp(toNum(s.gramNegPct), Num(0), Num(100)),
       sinkAttributablePct |-> clamp(toNum(s.sinkAttributablePct), Num(0), Num(100)),
       effectPct |-> clamp(toNum(s.effectPct), Num(0), Num(100)),
       extraDaysPerVRI |-> clamp(toNum(s.extraDaysPerVRI), Num(0), Num(365)),
       costPerBedDay |-> clamp(toNum(s.costPerBedDay), Num(0), Num(1000000)),
       costPerVRI |-> clamp(toNum(s.costPerVRI), Num(0), Num(10000000)),
       pricingMode |-> s.pricingMode,
       capex |-> clamp(toNum(s.capex), Num(0), Num(100000000)),
       opexYear |-> clamp(toNum(s.opexYear), Num(0), Num(100000000)),
       capexAmortYears |-> clamp(toNum(s.capexAmortYears), Num(1), Num(20))]

\* the five messages of safetyNotes, abbreviated
ZeroInfectionNote == "VRI/1000 = 0 och ingen override: kalkylen ger 0 infektioner"
LowAttributionNote == "Handfatskoppling mycket lagt (<= 5%)"
LowEffectNote == "Effekt mycket lagt (<= 5%)"
ZeroBedDayCostNote == "Kostnad per varddygn ar 0: besparing blir 0"
ZeroVRICostNote == "Kostnad per VRI ar 0: besparing blir 0"

\* the conditions of the five rules of safetyNotes, in the order of the code
\* the rate alone decides, an override in force is not looked at
zeroInfectionRule_IgnoresOverride(p, r) == NumEq(p.vriPer1000BedDays, Num(0))

zeroInfectionRule(p, r) == ~r.usedOverride /\ NumEq(p.vriPer1000BedDays, Num(0))

\* < for <=
lowAttributionRule_Strict(p) == Lt(p.sinkAttributablePct, Num(5))

lowAttributionRule(p) == Le(p.sinkAttributablePct, Num(5))

\* the length of stay read for the effect
lowEffectRule_ByStay(p) == Le(p.alosDays, Num(5))

\* < for <=
lowEffectRule_Strict(p) == Lt(p.effectPct, Num(5))

lowEffectRule(p) == Le(p.effectPct, Num(5))

zeroBedDayCostRule(p) == p.pricingMode = "bedDays" /\ NumEq(p.costPerBedDay, Num(0))

zeroVRICostRule(p) == p.pricingMode = "perVRI" /\ NumEq(p.costPerVRI, Num(0))

\* else-if for if: the first rule that fires suppresses the others
evaluate_FirstOnly(p, r) ==
  IF zeroInfectionRule(p, r) THEN <<ZeroInfectionNote>>
  ELSE IF lowAttributionRule(p) THEN <<LowAttributionNote>>
  ELSE IF lowEffectRule(p) THEN <<LowEffectNote>>
  ELSE IF zeroBedDayCostRule(p) THEN <<ZeroBedDayCostNote>>
  ELSE IF zeroVRICostRule(p) THEN <<ZeroVRICostNote>>
  ELSE <<>>

\* safetyNotes: the advisory list
evaluate(p, r) ==
  (IF zeroInfectionRule(p, r) THEN <<ZeroInfectionNote>> ELSE <<>>)
  \o (IF lowAttributionRule(p) THEN <<LowAttributionNote>> ELSE <<>>)
  \o (IF lowEffectRule(p) THEN <<LowEffectNote>> ELSE <<>>)
  \o (IF zeroBedDayCostRule(p) THEN <<ZeroBedDayCostNote>> ELSE <<>>)
  \o (IF zeroVRICostRule(p) THEN <<ZeroVRICostNote>> ELSE <<>>)

(***************************************************************************)
(* The values a user can put into a field: the text of an input box, or    *)
(* the number a slider delivers (part_000).  Every field is offered the    *)
(* empty text, a text that is no number, a negative number and a number    *)
(* above its upper bound; the other texts carry a decimal comma, a second  *)
(* comma or point, whitespace, a sign, a value a rule turns on, or an      *)
(* exponent that takes the value to the edge of the range of a double.     *)
(***************************************************************************)
CommonTexts == {RawText(<<>>), RawText(<<"a">>), RawText(<<"-", "1">>)}

RawValues(f) ==
  CommonTexts \cup
  CASE f = "beds" ->
         {RawText(<<"2", "0", "0", "1">>), RawText(<<"1", " ", "0", "0", "0">>)}
    [] f = "occupancyPct" ->
         {RawText(<<"1", "0", "1">>), RawNumber(Num(50)),
          RawText(<<"5", "e", "-", "3", "2", "4">>)}
    [] f = "alosDays" ->
         {RawText(<<"3", "6", "6">>), RawText(<<"1", ".", "2", ".", "3">>)}
    [] f = "vriPer1000BedDays" ->
         {RawText(<<"2", "0", "1">>), RawText(<<".", "5">>),
          RawText(<<"5", "e", "-", "3", "2", "4">>)}
    [] f = "vriPerYearOverride" ->
         {RawText(<<"0">>), RawText(<<"1", "0", "0", "0">>), RawText(<<"1", ",", "5">>),
          RawText(<<"1", "e", "3", "0", "8">>)}
    [] f = "gramNegPct" ->
         {RawText(<<"1", "0", "1">>), RawText(<<"1", ",", "2", ",", "3">>)}
    [] f = "sinkAttributablePct" ->
         {RawText(<<"1", "0", "1">>), RawText(<<"3">>), RawText(<<"5">>),
          RawText(<<"5", ".", "1">>)}
    [] f = "effectPct" ->
         {RawText(<<"1", "0", "1">>), RawText(<<"+", "5", "0">>), RawText(<<"-">>)}
    [] f = "extraDaysPerVRI" ->
         {RawText(<<"3", "6", "6">>), RawNumber(Num(20))}
    [] f = "costPerBedDay" ->
         {RawText(<<"1", "0", "0", "0", "0", "0", "1">>), RawNumber(Num(5000))}
    [] f = "costPerVRI" ->
         {RawText(<<"1", "0", "0", "0", "0", "0", "0", "1">>), RawNumber(Num(30000))}
    [] f = "capex" ->
         {RawText(<<"1", "0", "0", "0", "0", "0", "0", "0", "1">>),
          RawText(<<" ", "7", " ">>), RawText(<<"5", "e", "-", "3", "2", "4">>)}
    [] f = "opexYear" ->
         {RawText(<<"1", "0", "0", "0", "0", "0", "0", "0", "1">>),
          RawText(<<"1", "0", "1", "5", "3", ".", "5", "9", "2">>),
          RawText(<<"1", "0", "1", "5", "4">>)}
    [] f = "capexAmortYears" ->
         {RawText(<<"2", "1">>), RawText(<<"0", ",", "5">>), RawNumber(Num(15))}

\* the bound on the number of edits between two resets
MaxEdits == 2

\* the form state of useState, and the number of edits since the start or
\* the last reset
VARIABLES state, edits

vars == <<state, edits>>

\* beds without its clamp
parsed_BedsUnclamped == [normalize(state) EXCEPT !.beds = toNum(state.beds)]

\* the pricing mode of the defaults for the one of the form
parsed_DefaultPricing == [normalize(state) EXCEPT !.pricingMode = defaults.pricingMode]

\* the override clamped like the other fields
parsed_OverrideClamped ==
  [normalize(state) EXCEPT !.vriPerYearOverride = clamp(@, Num(0), Num(100000000))]

\* the values the component derives from the form state at every render
\* (useMemo on state, on parsed, and on parsed and result)
parsed == normalize(state)
result == calc(parsed)
safetyNotes == evaluate(parsed, result)

Init ==
  /\ state = defaults
  /\ edits = 0

\* the bound on edits leaves room for one more
Editable == edits < MaxEdits

\* the defaults spread for the previous state: ({ ...defaults, [f]: v })
Edit_OverDefaults(f, v) ==
  /\ edits' = edits + 1
  /\ state' = [defaults EXCEPT ![f] = v]

\* setState((p) => ({ ...p, [f]: v }))
Edit(f, v) ==
  /\ edits' = edits + 1
  /\ state' = [state EXCEPT ![f] = v]

ChangeBeds == Editable /\ \E v \in RawValues("beds") : Edit("beds", v)
ChangeOccupancyPct ==
  Editable /\ \E v \in RawValues("occupancyPct") : Edit("occupancyPct", v)
ChangeAlosDays == Editable /\ \E v \in RawValues("alosDays") : Edit("alosDays", v)
ChangeVriPer1000BedDays ==
  Editable /\ \E v \in RawValues("vriPer1000BedDays") : Edit("vriPer1000BedDays", v)
ChangeVriPerYearOverride ==
  Editable /\ \E v \in RawValues("vriPerYearOverride") : Edit("vriPerYearOverride", v)
ChangeGramNegPct == Editable /\ \E v \in RawValues("gramNegPct") : Edit("gramNegPct", v)
ChangeSinkAttributablePct ==
  Editable /\ \E v \in RawValues("sinkAttributablePct") : Edit("sinkAttributablePct", v)
ChangeEffectPct == Editable /\ \E v \in RawValues("effectPct") : Edit("effectPct", v)
ChangeExtraDaysPerVRI ==
  Editable /\ \E v \in RawValues("extraDaysPerVRI") : Edit("extraDaysPerVRI", v)
ChangeCostPerBedDay ==
  Editable /\ \E v \in RawValues("costPerBedDay") : Edit("costPerBedDay", v)
ChangeCostPerVRI == Editable /\ \E v \in RawValues("costPerVRI") : Edit("costPerVRI", v)
ChangeCapex == Editable /\ \E v \in RawValues("capex") : Edit("capex", v)
ChangeOpexYear == Editable /\ \E v \in RawValues("opexYear") : Edit("opexYear", v)
ChangeCapexAmortYears ==
  Editable /\ \E v \in RawValues("capexAmortYears") : Edit("capexAmortYears", v)

SetPricingBedDays == Editable /\ Edit("pricingMode", "bedDays")
SetPricingPerVRI == Editable /\ Edit("pricingMode", "perVRI")

SelectScenario ==
  Editable /\ \E k \in DOMAIN scenarios : Edit("effectPct", RawNumber(Num(scenarios[k])))

\* a reset that keeps the pricing mode
Reset_KeepPricing ==
  /\ edits' = 0
  /\ state' = [defaults EXCEPT !.pricingMode = state.pricingMode]

\* setState(defaults)
Reset ==
  /\ edits' = 0
  /\ state' = defaults

Next ==
  \/ ChangeBeds
  \/ ChangeOccupancyPct
  \/ ChangeAlosDays
  \/ ChangeVriPer1000BedDays
  \/ ChangeVriPerYearOverride
  \/ ChangeGramNegPct
  \/ ChangeSinkAttributablePct
  \/ ChangeEffectPct
  \/ ChangeExtraDaysPerVRI
  \/ ChangeCostPerBedDay
  \/ ChangeCostPerVRI
  \/ ChangeCapex
  \/ ChangeOpexYear
  \/ ChangeCapexAmortYears
  \/ SetPricingBedDays
  \/ SetPricingPerVRI
  \/ SelectScenario
  \/ Reset

Spec == Init /\ [][Next]_vars

\* the form two edits after the defaults: the override field holds the text
\* 1e308 and the extra-days field a stay above its cap
EditedForm ==
  [defaults EXCEPT !.vriPerYearOverride = RawText(<<"1", "e", "3", "0", "8">>),
                   !.extraDaysPerVRI = RawText(<<"3", "6", "6">>)]

InitEdited ==
  /\ state = EditedForm
  /\ edits = 0

\* the component from the edited form on
SpecEdited == InitEdited /\ [][Next]_vars

(***************************************************************************)
(* Properties.                                                             *)
(***************************************************************************)
HasNote(n) == \E i \in 1..Len(safetyNotes) : safetyNotes[i] = n

\* the bounds table of the specification (section 4.1)
BoundedFields ==
  {"beds", "occupancyPct", "alosDays", "vriPer1000BedDays", "gramNegPct",
   "sinkAttributablePct", "effectPct", "extraDaysPerVRI", "costPerBedDay",
   "costPerVRI", "capex", "opexYear", "capexAmortYears"}

BoundLo(f) == IF f = "capexAmortYears" THEN Num(1) ELSE Num(0)

BoundHi(f) ==
  CASE f \in {"occupancyPct", "gramNegPct", "sinkAttributablePct", "effectPct"} -> Num(100)
    [] f \in {"alosDays", "extraDaysPerVRI"} -> Num(365)
    [] f = "beds" -> Num(2000)
    [] f = "vriPer1000BedDays" -> Num(200)
    [] f = "costPerBedDay" -> Num(1000000)
    [] f = "costPerVRI" -> Num(10000000)
    [] f \in {"capex", "opexYear"} -> Num(100000000)
    [] f = "capexAmortYears" -> Num(20)

\* C1: every bounded field of the normalized input lies in its inclusive
\* [lo, hi] of the bounds table, whatever the raw value, and a raw value
\* that does not parse (toNum gives NaN) is normalized to lo.
C1_Clamping ==
  \A f \in BoundedFields :
    /\ Le(BoundLo(f), parsed[f])
    /\ Le(parsed[f], BoundHi(f))
    /\ (IsNaN(toNum(state[f])) => NumEq(parsed[f], BoundLo(f)))

\* one field holds text that is no number, another a number above its bound
C1_Witness ==
  \E f, g \in BoundedFields :
    /\ state[f].type = "string" /\ IsNaN(toNum(state[f]))
    /\ Gt(toNum(state[g]), BoundHi(g))

\* normalized inputs that differ from the current one in the volume fields
AltRates == {Num(0), Num(6), Num(200)}
AltBeds == {Num(0), Num(2000)}
AltOccupancies == {Num(0), Num(100)}

\* C2: with an override above zero, vri is the override and usedOverride is
\* true, for the current rate, beds and occupancy and for any other.
C2_OverridePrecedence ==
  Gt(parsed.vriPerYearOverride, Num(0)) =>
    /\ NumEq(result.vri, parsed.vriPerYearOverride)
    /\ result.usedOverride
    /\ \A rate \in AltRates, b \in AltBeds, o \in AltOccupancies :
         LET r == calc([parsed EXCEPT !.vriPer1000BedDays = rate,
                                      !.beds = b, !.occupancyPct = o])
         IN  NumEq(r.vri, parsed.vriPerYearOverride) /\ r.usedOverride

\* an override is in force while the rate alone gives another count
C2_Witness ==
  /\ Gt(parsed.vriPerYearOverride, Num(0))
  /\ Gt(result.vriFromRate, Num(0))
  /\ ~NumEq(result.vriFromRate, parsed.vriPerYearOverride)

\* C3: with the override NaN (text that is no number), zero or negative,
\* vri is vriFromRate and usedOverride is false.
C3_RateFallback ==
  ~Gt(parsed.vriPerYearOverride, Num(0)) =>
    NumEq(result.vri, result.vriFromRate) /\ ~result.usedOverride

\* a negative override, with a rate that gives infections
C3_Witness ==
  Lt(parsed.vriPerYearOverride, Num(0)) /\ Gt(result.vriFromRate, Num(0))

\* costs that differ from the current ones
AltCosts == {Num(0), Num(1), Num(12000), Num(90000), Num(10000000)}

\* C4: in mode perVRI savedSEK is avoided * costPerVRI and does not change
\* with costPerBedDay; in mode bedDays it is savedBedDays * costPerBedDay
\* and does not change with costPerVRI.
C4_PricingExclusivity ==
  /\ parsed.pricingMode = "perVRI" =>
       /\ NumEq(result.savedSEK, Mul(result.avoided, parsed.costPerVRI))
       /\ \A c \in AltCosts :
            NumEq(calc([parsed EXCEPT !.costPerBedDay = c]).savedSEK, result.savedSEK)
  /\ parsed.pricingMode = "bedDays" =>
       /\ NumEq(result.savedSEK, Mul(result.savedBedDays, parsed.costPerBedDay))
       /\ \A c \in AltCosts :
            NumEq(calc([parsed EXCEPT !.costPerVRI = c]).savedSEK, result.savedSEK)

\* mode perVRI with savings, where the bed-day price would give other savings
C4_Witness ==
  /\ parsed.pricingMode = "perVRI"
  /\ Gt(result.savedSEK, Num(0))
  /\ ~NumEq(Mul(result.savedBedDays, parsed.costPerBedDay), result.savedSEK)

\* C5: with savedSEK <= opexYear, paybackYears is NaN; with savedSEK exactly
\* 1 above opexYear, paybackYears is capex.
C5_PaybackBoundary ==
  /\ Le(result.savedSEK, parsed.opexYear) => IsNaN(result.paybackYears)
  /\ NumEq(Sub(result.savedSEK, parsed.opexYear), Num(1)) =>
       NumEq(result.paybackYears, parsed.capex)

\* the savings are exactly 1 above the operating cost
C5_Witness ==
  /\ NumEq(Sub(result.savedSEK, parsed.opexYear), Num(1))
  /\ Gt(parsed.capex, Num(0))

\* effects other than the current one
AltEffects == {Num(0), Num(5), Num(10), Num(20), Decimal(505, 1), Num(100)}

\* C6: of two normalized inputs that differ only in effectPct, the one with
\* the larger effectPct has avoided, savedBedDays and savedSEK at least as
\* large.
C6_EffectMonotone ==
  \A e \in AltEffects :
    LET r == calc([parsed EXCEPT !.effectPct = e])
    IN  /\ Ge(e, parsed.effectPct) =>
             /\ Ge(r.avoided, result.avoided)
             /\ Ge(r.savedBedDays, result.savedBedDays)
             /\ Ge(r.savedSEK, result.savedSEK)
        /\ Le(e, parsed.effectPct) =>
             /\ Le(r.avoided, result.avoided)
             /\ Le(r.savedBedDays, result.savedBedDays)
             /\ Le(r.savedSEK, result.savedSEK)

\* the override 1e308 with a stay of 365 days and bed-days priced at 0: at
\* the effect 100 savedBedDays overflows to Infinity and savedSEK, Infinity
\* times 0, is NaN, while at the current, smaller effect savedSEK is 0
C6_Witness ==
  /\ parsed.pricingMode = "bedDays"
  /\ Lt(parsed.effectPct, Num(100))
  /\ NumEq(result.savedSEK, Num(0))
  /\ IsInf(calc([parsed EXCEPT !.effectPct = Num(100)]).savedBedDays)
  /\ IsNaN(calc([parsed EXCEPT !.effectPct = Num(100)]).savedSEK)

\* C7: with the rate 0 and no override in force (NaN, zero or negative), the
\* zero-infection advisory is in the list; with sinkAttributablePct <= 5,
\* the low-attribution advisory is in the list.
C7_AdvisoryFiring ==
  /\ (NumEq(parsed.vriPer1000BedDays, Num(0)) /\ ~Gt(parsed.vriPerYearOverride, Num(0)))
       => HasNote(ZeroInfectionNote)
  /\ Le(parsed.sinkAttributablePct, Num(5)) => HasNote(LowAttributionNote)

\* the rate is 0 without an override, and the attribution is 3
C7_Witness ==
  /\ NumEq(parsed.vriPer1000BedDays, Num(0))
  /\ state.vriPerYearOverride = RawText(<<>>)
  /\ NumEq(parsed.sinkAttributablePct, Num(3))

\* C8 as stated: on the defaults bedDays is 8056.8, annualCost is 95000 and
\* paybackYears is NaN.
C8_AsStated ==
  state = defaults =>
    /\ NumEq(result.bedDays, Decimal(80568, 1))
    /\ NumEq(result.annualCost, Num(95000))
    /\ IsNaN(result.paybackYears)

\* C8, amended: on the defaults bedDays is 24 * 365 * 0.92 = 8059.2,
\* annualCost is 350000 / 5 + 25000 = 95000, and paybackYears is NaN, with
\* savedSEK <= opexYear = 25000.
C8_DefaultsVolumeAndCost ==
  state = defaults =>
    /\ NumEq(result.bedDays, Decimal(80592, 1))
    /\ NumEq(result.annualCost, Num(95000))
    /\ Le(result.savedSEK, Num(25000))
    /\ IsNaN(result.paybackYears)

\* the form holds the defaults
C8_Witness == state = defaults /\ parsed.pricingMode = "bedDays"

\* C9 as stated: on the defaults savedSEK is 10152 and net is -84848.
C9_AsStated ==
  state = defaults =>
    /\ NumEq(result.savedSEK, Num(10152))
    /\ NumEq(result.net, Num(-84848))

\* C9, amended: on the defaults savedSEK is 10154.592 and net is
\* 10154.592 - 95000 = -84845.408.
C9_DefaultsSavings ==
  state = defaults =>
    /\ NumEq(result.savedSEK, Decimal(10154592, 3))
    /\ NumEq(result.net, Decimal(-84845408, 3))

\* the form holds the defaults, and the savings are below the annual cost
C9_Witness == state = defaults /\ Lt(result.net, Num(0))

\* C11 as stated: every numeric field of the normalized input, the override
\* included, is finite.
C11_AsStated ==
  /\ \A f \in BoundedFields : isFinite(parsed[f])
  /\ isFinite(parsed.vriPerYearOverride)

\* C11, amended: every bounded field of the normalized input is finite; the
\* override is finite unless its raw value does not parse, and then it is
\* NaN.
C11_FiniteButOverride ==
  /\ \A f \in BoundedFields : isFinite(parsed[f])
  /\ isFinite(parsed.vriPerYearOverride) <=> ~IsNaN(toNum(state.vriPerYearOverride))

\* text that is no number in beds and in the override
C11_Witness ==
  /\ state.beds = RawText(<<"a">>)
  /\ state.vriPerYearOverride = RawText(<<"a">>)

\* C12: pricingMode of the form is "bedDays" or "perVRI" in every reachable
\* state, and the normalized input carries the same value.
C12_PricingModeEnum ==
  /\ state.pricingMode \in {"bedDays", "perVRI"}
  /\ parsed.pricingMode = state.pricingMode

\* the mode perVRI, chosen with its button, next to an edited field
C12_Witness ==
  /\ state.pricingMode = "perVRI"
  /\ state.effectPct # defaults.effectPct

\* the five messages in the order of their declaration, and the predicate of
\* each as the specification states it (section 4.3)
DeclaredNotes ==
  <<ZeroInfectionNote, LowAttributionNote, LowEffectNote, ZeroBedDayCostNote,
    ZeroVRICostNote>>

RuleHolds(i) ==
  CASE i = 1 -> ~result.usedOverride /\ NumEq(parsed.vriPer1000BedDays, Num(0))
    [] i = 2 -> Le(parsed.sinkAttributablePct, Num(5))
    [] i = 3 -> Le(parsed.effectPct, Num(5))
    [] i = 4 -> parsed.pricingMode = "bedDays" /\ NumEq(parsed.costPerBedDay, Num(0))
    [] i = 5 -> parsed.pricingMode = "perVRI" /\ NumEq(parsed.costPerVRI, Num(0))

\* the place of a message in the order of declaration
DeclaredAt(n) == CHOOSE i \in 1..5 : DeclaredNotes[i] = n

\* C13: the advisory list holds only the five messages, each once when its
\* predicate holds and not at all when it does not, and in the order of
\* declaration.
C13_AdvisorySubsequence ==
  /\ \A j \in 1..Len(safetyNotes) : \E i \in 1..5 : safetyNotes[j] = DeclaredNotes[i]
  /\ \A i \in 1..5 :
       Cardinality({j \in 1..Len(safetyNotes) : safetyNotes[j] = DeclaredNotes[i]})
         = IF RuleHolds(i) THEN 1 ELSE 0
  /\ \A j, k \in 1..Len(safetyNotes) :
       j < k => DeclaredAt(safetyNotes[j]) < DeclaredAt(safetyNotes[k])

\* two rules fire at once, with a rule between them that does not
C13_Witness ==
  /\ RuleHolds(2) /\ ~RuleHolds(3) /\ RuleHolds(4)
  /\ Len(safetyNotes) = 2

\* the same number, or NaN on both sides
SameNum(x, y) == (IsNaN(x) /\ IsNaN(y)) \/ NumEq(x, y)

\* the numeric fields of a Result
ResultNumbers ==
  {"bedDays", "vri", "vriPer1000", "gramNeg", "sinkGramNeg", "avoided",
   "savedBedDays", "savedSEK", "annualCost", "net", "roi", "paybackYears",
   "vriFromRate"}

\* two Result records that agree on every field
SameResult(r, q) ==
  /\ \A f \in ResultNumbers : SameNum(r[f], q[f])
  /\ r.usedOverride = q.usedOverride

\* lengths of stay other than the current one
AltStays == {Num(0), Num(4), Decimal(45, 1), Num(365)}

\* C14: a normalized input that differs from the current one only in
\* alosDays gives the same Result and the same advisory list.
C14_AlosInformational ==
  \A a \in AltStays :
    LET p == [parsed EXCEPT !.alosDays = a]
    IN  /\ SameResult(calc(p), result)
        /\ evaluate(p, calc(p)) = safetyNotes

\* the length of stay was edited to its upper bound, with infections avoided
C14_Witness ==
  /\ NumEq(parsed.alosDays, Num(365))
  /\ Gt(result.avoided, Num(0))

\* the default parameter set as the specification lists it (section 6)
ListedDefaults ==
  [beds |-> Num(24), occupancyPct |-> Num(92), alosDays |-> Num(4),
   vriPer1000BedDays |-> Num(6), gramNegPct |-> Num(35),
   sinkAttributablePct |-> Num(10), effectPct |-> Num(10),
   extraDaysPerVRI |-> Num(5), costPerBedDay |-> Num(12000),
   costPerVRI |-> Num(90000), capex |-> Num(350000), opexYear |-> Num(25000),
   capexAmortYears |-> Num(5)]

\* the raw form s holds the listed defaults: every listed number, a blank
\* override and the mode "bedDays"
HoldsDefaults(s) ==
  /\ \A f \in DOMAIN ListedDefaults : NumEq(toNum(s[f]), ListedDefaults[f])
  /\ s.vriPerYearOverride = RawText(<<>>)
  /\ s.pricingMode = "bedDays"

\* C16: the initial form holds the default parameter set, and every reset,
\* from whatever state, leaves the form holding the default parameter set.
C16_DefaultsAndReset ==
  /\ HoldsDefaults(state)
  /\ [][Reset => HoldsDefaults(state)']_vars

\* a form a reset has to restore: the mode perVRI and an override typed in
C16_Witness ==
  /\ state.pricingMode = "perVRI"
  /\ state.vriPerYearOverride # RawText(<<>>)
  /\ ENABLED Reset

\* the presets as the specification lists them (section 6)
ListedPresets == [conservative |-> 5, low |-> 10, ambitious |-> 20]

\* a step leaves every raw field but f as it was
OnlyChanges(f) == \A g \in (DOMAIN state) \ {f} : state'[g] = state[g]

\* C17: a scenario preset sets effectPct to the value listed for it and
\* leaves every other raw field unchanged, and the edit of one field (a
\* text box, a slider, a pricing button) leaves every other raw field
\* unchanged.
C17_FrameOfEdits ==
  [][/\ \A k \in DOMAIN ListedPresets :
          (Editable /\ Edit("effectPct", RawNumber(Num(scenarios[k])))) =>
            /\ state'.effectPct.type = "number"
            /\ NumEq(toNum(state'.effectPct), Num(ListedPresets[k]))
     /\ SelectScenario => OnlyChanges("effectPct")
     /\ ChangeBeds => OnlyChanges("beds")
     /\ ChangeOccupancyPct => OnlyChanges("occupancyPct")
     /\ ChangeAlosDays => OnlyChanges("alosDays")
     /\ ChangeVriPer1000BedDays => OnlyChanges("vriPer1000BedDays")
     /\ ChangeVriPerYearOverride => OnlyChanges("vriPerYearOverride")
     /\ ChangeGramNegPct => OnlyChanges("gramNegPct")
     /\ ChangeSinkAttributablePct => OnlyChanges("sinkAttributablePct")
     /\ ChangeEffectPct => OnlyChanges("effectPct")
     /\ ChangeExtraDaysPerVRI => OnlyChanges("extraDaysPerVRI")
     /\ ChangeCostPerBedDay => OnlyChanges("costPerBedDay")
     /\ ChangeCostPerVRI => OnlyChanges("costPerVRI")
     /\ ChangeCapex => OnlyChanges("capex")
     /\ ChangeOpexYear => OnlyChanges("opexYear")
     /\ ChangeCapexAmortYears => OnlyChanges("capexAmortYears")
     /\ SetPricingBedDays => OnlyChanges("pricingMode")
     /\ SetPricingPerVRI => OnlyChanges("pricingMode")]_vars

\* the preset ambitious was selected in a form whose beds had been edited
C17_Witness ==
  /\ state.effectPct = RawNumber(Num(20))
  /\ state.beds # defaults.beds

\* C18: the override of the normalized input is NaN when the raw value does
\* not parse and is the parsed value otherwise, zero and negative values
\* included: "a" gives NaN, "0" gives 0, "-1" gives -1 and "1000" gives 1000.
C18_OverrideKeptAsIs ==
  /\ IsNaN(toNum(state.vriPerYearOverride)) => IsNaN(parsed.vriPerYearOverride)
  /\ ~IsNaN(toNum(state.vriPerYearOverride)) =>
       NumEq(parsed.vriPerYearOverride, toNum(state.vriPerYearOverride))
  /\ state.vriPerYearOverride = RawText(<<"a">>) => IsNaN(parsed.vriPerYearOverride)
  /\ state.vriPerYearOverride = RawText(<<"0">>) =>
       NumEq(parsed.vriPerYearOverride, Num(0))
  /\ state.vriPerYearOverride = RawText(<<"-", "1">>) =>
       NumEq(parsed.vriPerYearOverride, Num(-1))
  /\ state.vriPerYearOverride = RawText(<<"1", "0", "0", "0">>) =>
       NumEq(parsed.vriPerYearOverride, Num(1000))

\* a negative override was typed in, below every lower bound of the table
C18_Witness ==
  /\ state.vriPerYearOverride = RawText(<<"-", "1">>)
  /\ Lt(parsed.vriPerYearOverride, Num(0))

\* x percent of y: y times the fraction x / 100
PercentOf(x, y) == Mul(y, Div(x, Num(100)))

\* C19: bedDays is beds * 365 * clamp(occupancyPct / 100, 0, 1), vriFromRate
\* is (vriPer1000BedDays / 1000) * bedDays, gramNeg is gramNegPct percent of
\* vri, sinkGramNeg is sinkAttributablePct percent of gramNeg, avoided is
\* effectPct percent of sinkGramNeg, and savedBedDays is avoided *
\* extraDaysPerVRI.
C19_InfectionChain ==
  /\ NumEq(result.bedDays,
           Mul(Mul(parsed.beds, Num(365)),
               clamp(Div(parsed.occupancyPct, Num(100)), Num(0), Num(1))))
  /\ NumEq(result.vriFromRate,
           Mul(Div(parsed.vriPer1000BedDays, Num(1000)), result.bedDays))
  /\ NumEq(result.gramNeg, PercentOf(parsed.gramNegPct, result.vri))
  /\ NumEq(result.sinkGramNeg, PercentOf(parsed.sinkAttributablePct, result.gramNeg))
  /\ NumEq(result.avoided, PercentOf(parsed.effectPct, result.sinkGramNeg))
  /\ NumEq(result.savedBedDays, Mul(result.avoided, parsed.extraDaysPerVRI))

\* the rate 0.5 and the occupancy 50 were entered, and bed-days are saved
C19_Witness ==
  /\ NumEq(parsed.vriPer1000BedDays, Decimal(5, 1))
  /\ NumEq(parsed.occupancyPct, Num(50))
  /\ ~result.usedOverride
  /\ Gt(result.savedBedDays, Num(0))

C21_AsStated ==
  /\ Gt(result.bedDays, Num(0)) =>
       SameNum(result.vriPer1000, Mul(Div(result.vri, result.bedDays), Num(1000)))
  /\ IsNaN(result.vriPer1000) <=> NumEq(result.bedDays, Num(0))
  /\ NumEq(result.bedDays, Num(0)) <=>
       (NumEq(parsed.beds, Num(0)) \/ NumEq(parsed.occupancyPct, Num(0)))

\* C21: vriPer1000 is (vri / bedDays) * 1000 when bedDays > 0, and is NaN
\* exactly when bedDays is 0, also when a positive override makes vri > 0;
\* bedDays is 0 when beds is 0 or occupancyPct is 0, and only when beds is
\* 0 or occupancyPct / 100 evaluates to 0 or their product underflows.
C21_ReverseRateByBedDays ==
  /\ Gt(result.bedDays, Num(0)) =>
       SameNum(result.vriPer1000, Mul(Div(result.vri, result.bedDays), Num(1000)))
  /\ IsNaN(result.vriPer1000) <=> NumEq(result.bedDays, Num(0))
  /\ (NumEq(parsed.beds, Num(0)) \/ NumEq(parsed.occupancyPct, Num(0))) =>
       NumEq(result.bedDays, Num(0))
  /\ NumEq(result.bedDays, Num(0)) <=>
       NumEq(Mul(Mul(parsed.beds, Num(365)), occupancy(parsed.occupancyPct)), Num(0))
  /\ (result.usedOverride /\ NumEq(result.bedDays, Num(0))) =>
       (Gt(result.vri, Num(0)) /\ IsNaN(result.vriPer1000))

\* the smallest positive occupancy was typed in and an override is in
\* force: bedDays is 0 with beds and occupancyPct positive, vri is positive
\* and the reverse rate is NaN
C21_Witness ==
  /\ state.occupancyPct = RawText(<<"5", "e", "-", "3", "2", "4">>)
  /\ Gt(parsed.occupancyPct, Num(0))
  /\ Gt(parsed.beds, Num(0))
  /\ result.usedOverride
  /\ Gt(result.vri, Num(0))
  /\ NumEq(result.bedDays, Num(0))
  /\ IsNaN(result.vriPer1000)

\* the numeric fields calc computes with (alosDays is not among them, and a
\* NaN override is the well-formed "unset")
CalcFields ==
  {"beds", "occupancyPct", "vriPer1000BedDays", "gramNegPct", "sinkAttributablePct",
   "effectPct", "extraDaysPerVRI", "costPerBedDay", "costPerVRI", "capex",
   "opexYear", "capexAmortYears"}

\* the Result fields whose expression in calc reads the field f of the
\* input p, directly or through another constant, on the branches p takes
DependsOn(p, f) ==
  LET viaRate == IF usedOverride(p.vriPerYearOverride) THEN {}
                 ELSE {"vri", "gramNeg", "sinkGramNeg", "avoided", "savedBedDays",
                       "savedSEK", "net", "roi", "paybackYears"}
      fromGramNeg == {"gramNeg", "sinkGramNeg", "avoided", "savedBedDays", "savedSEK",
                      "net", "roi", "paybackYears"}
      money == {"savedSEK", "net", "roi", "paybackYears"}
  IN  CASE f \in {"beds", "occupancyPct"} ->
             {"bedDays", "vriFromRate", "vriPer1000"} \cup viaRate
        [] f = "vriPer1000BedDays" ->
             {"vriFromRate"} \cup viaRate
             \cup (IF usedOverride(p.vriPerYearOverride) THEN {} ELSE {"vriPer1000"})
        [] f = "gramNegPct" -> fromGramNeg
        [] f = "sinkAttributablePct" -> fromGramNeg \ {"gramNeg"}
        [] f = "effectPct" -> fromGramNeg \ {"gramNeg", "sinkGramNeg"}
        [] f = "extraDaysPerVRI" ->
             {"savedBedDays"} \cup (IF p.pricingMode = "perVRI" THEN {} ELSE money)
        [] f = "costPerBedDay" -> IF p.pricingMode = "perVRI" THEN {} ELSE money
        [] f = "costPerVRI" -> IF p.pricingMode = "perVRI" THEN money ELSE {}
        [] f = "capex" -> {"annualCost", "net", "roi", "paybackYears"}
        [] f = "opexYear" -> {"annualCost", "net", "roi", "paybackYears"}
        [] f = "capexAmortYears" -> {"annualCost", "net", "roi"}

\* calc on the normalized input p with NaN in the field f
WithNaN(p, f) == calc([p EXCEPT ![f] = NaN])

\* every Result field that depends on the field f of p is NaN when f is
Propagates(p, f) ==
  LET r == WithNaN(p, f)
  IN  \A g \in DependsOn(p, f) : IsNaN(r[g])

\* C22 as stated: when a numeric field of the input of calc is NaN, every
\* Result field that depends on that field is NaN.
C22_AsStated ==
  LET p == parsed
  IN  \A f \in CalcFields : Propagates(p, f)

\* C22: when a numeric field of the input of calc other than occupancyPct
\* and capexAmortYears is NaN, every Result field that depends on it is NaN.
\* A NaN occupancyPct is clamped to the occupancy 0 and gives the Result of
\* occupancyPct = 0; a NaN capexAmortYears takes the un-amortized branch and
\* gives the Result of capexAmortYears = 1.
C22_PropagatesButClampAndFallback ==
  LET p == parsed
      unoccupied == WithNaN(p, "occupancyPct")
      unamortized == WithNaN(p, "capexAmortYears")
  IN  /\ \A f \in CalcFields \ {"occupancyPct", "capexAmortYears"} : Propagates(p, f)
      /\ SameResult(unoccupied, calc([p EXCEPT !.occupancyPct = Num(0)]))
      /\ NumEq(unoccupied.bedDays, Num(0))
      /\ SameResult(unamortized, calc([p EXCEPT !.capexAmortYears = Num(1)]))
      /\ SameNum(unamortized.annualCost, Add(p.capex, p.opexYear))

\* savings above the operating cost, so that payback is a number: with NaN
\* for beds it is NaN, with NaN for occupancyPct bedDays is the number 0,
\* and with NaN for capexAmortYears annualCost is the number capex + opexYear
C22_Witness ==
  /\ ~result.usedOverride
  /\ Gt(result.bedDays, Num(0))
  /\ isFinite(result.paybackYears)
  /\ IsNaN(WithNaN(parsed, "beds").paybackYears)
  /\ NumEq(WithNaN(parsed, "occupancyPct").bedDays, Num(0))
  /\ isFinite(WithNaN(parsed, "capexAmortYears").annualCost)

\* the raw overrides that are blank or zero: the empty text, the text 0 and
\* the number 0
BlankOrZero == {RawText(<<>>), RawText(<<"0">>), RawNumber(Num(0))}

\* C23: the raw overrides "", "0" and 0, all else equal, give the same
\* Result, on the rate path with usedOverride false, and the same advisory
\* list.
C23_BlankAndZeroOverride ==
  LET blank == normalize([state EXCEPT !.vriPerYearOverride = RawText(<<>>)])
      atBlank == calc(blank)
  IN  /\ ~atBlank.usedOverride
      /\ SameNum(atBlank.vri, atBlank.vriFromRate)
      /\ \A o \in BlankOrZero :
           LET p == normalize([state EXCEPT !.vriPerYearOverride = o])
               r == calc(p)
           IN  /\ ~r.usedOverride
               /\ SameNum(r.vri, r.vriFromRate)
               /\ SameResult(r, atBlank)
               /\ evaluate(p, r) = evaluate(blank, atBlank)

\* the text 0 was typed into the override field and the rate was cleared:
\* the zero-infection advisory is shown as with a blank override
C23_Witness ==
  /\ state.vriPerYearOverride = RawText(<<"0">>)
  /\ NumEq(parsed.vriPer1000BedDays, Num(0))
  /\ ~result.usedOverride
  /\ HasNote(ZeroInfectionNote)

\* the message n is in the list notes
InList(notes, n) == \E i \in 1..Len(notes) : notes[i] = n

\* C24: whenever the zero-cost advisory of the active pricing mode is in the
\* list (mode "bedDays" with costPerBedDay 0, or mode "perVRI" with
\* costPerVRI 0), savedSEK is 0; a zero cost of the inactive mode puts no
\* advisory in the list.
C24_ZeroCostMeansZeroSavings ==
  LET p == parsed
      r == calc(p)
      notes == evaluate(p, r)
  IN  /\ (p.pricingMode = "bedDays" /\ NumEq(p.costPerBedDay, Num(0))) =>
           (InList(notes, ZeroBedDayCostNote) /\ NumEq(r.savedSEK, Num(0)))
      /\ (p.pricingMode = "perVRI" /\ NumEq(p.costPerVRI, Num(0))) =>
           (InList(notes, ZeroVRICostNote) /\ NumEq(r.savedSEK, Num(0)))
      /\ (InList(notes, ZeroBedDayCostNote) \/ InList(notes, ZeroVRICostNote)) =>
           NumEq(r.savedSEK, Num(0))
      /\ p.pricingMode = "perVRI" => ~InList(notes, ZeroBedDayCostNote)
      /\ p.pricingMode = "bedDays" => ~InList(notes, ZeroVRICostNote)

\* bed-days are priced at 0 and the advisory is shown, but the saved
\* bed-days have overflowed and savedSEK is NaN
C24_Witness ==
  LET p == parsed
      r == calc(p)
  IN  /\ p.pricingMode = "bedDays"
      /\ NumEq(p.costPerBedDay, Num(0))
      /\ InList(evaluate(p, r), ZeroBedDayCostNote)
      /\ IsInf(r.savedBedDays)
      /\ IsNaN(r.savedSEK)

\* C27: 0 <= avoided <= sinkGramNeg <= gramNeg <= vri, and bedDays,
\* savedBedDays and savedSEK are all >= 0, for any override and in both
\* pricing modes.
C27_NothingNegative ==
  LET r == result
  IN  /\ Ge(r.avoided, Num(0))
      /\ Le(r.avoided, r.sinkGramNeg)
      /\ Le(r.sinkGramNeg, r.gramNeg)
      /\ Le(r.gramNeg, r.vri)
      /\ Ge(r.bedDays, Num(0))
      /\ Ge(r.savedBedDays, Num(0))
      /\ Ge(r.savedSEK, Num(0))

\* the override 1e308 is in force with every share of the chain at its
\* default or above and bed-days priced at 0: savedBedDays is Infinity and
\* savedSEK is NaN, which is not >= 0
C27_Witness ==
  LET r == result
  IN  /\ r.usedOverride
      /\ Ge(r.avoided, Num(0))
      /\ IsInf(r.savedBedDays)
      /\ IsNaN(r.savedSEK)
      /\ ~Ge(r.savedSEK, Num(0))

\* C26: paybackYears, when it is a number, is between 0 and capex; whenever
\* 0 < savedSEK - opexYear <= 1, paybackYears is capex.
C26_PaybackWithinCapex ==
  LET p == parsed
      r == calc(p)
      margin == Sub(r.savedSEK, p.opexYear)
  IN  /\ ~IsNaN(r.paybackYears) =>
           (Ge(r.paybackYears, Num(0)) /\ Le(r.paybackYears, p.capex))
      /\ (Gt(margin, Num(0)) /\ Le(margin, Num(1))) => NumEq(r.paybackYears, p.capex)

\* the savings are above the operating cost by less than 1, and payback is
\* the whole of a positive capex
C26_Witness ==
  LET p == parsed
      r == calc(p)
      margin == Sub(r.savedSEK, p.opexYear)
  IN  /\ Gt(margin, Num(0))
      /\ Lt(margin, Num(1))
      /\ Gt(p.capex, Num(0))
      /\ NumEq(r.paybackYears, p.capex)

C29_ZeroInfectionMeansZeroChain ==
  LET p == parsed
      r == calc(p)
  IN  InList(evaluate(p, r), ZeroInfectionNote) =>
        \A g \in {"vri", "gramNeg", "sinkGramNeg", "avoided", "savedBedDays", "savedSEK"} :
          NumEq(r[g], Num(0))

\* the rate was cleared and a negative override typed in: the advisory is
\* shown and nothing is saved
C29_Witness ==
  LET p == parsed
      r == calc(p)
  IN  /\ Lt(p.vriPerYearOverride, Num(0))
      /\ Gt(r.bedDays, Num(0))
      /\ InList(evaluate(p, r), ZeroInfectionNote)
      /\ NumEq(r.savedSEK, Num(0))

\* the low-effect advisory is in the advisory list
LowEffectShown == InList(safetyNotes, LowEffectNote)

\* the raw effect the preset k puts into the form
PresetEffect(k) == RawNumber(Num(ListedPresets[k]))

\* the low-effect advisory is in the advisory list of the default form with
\* the raw effect e
ShownWithEffect(e) ==
  LET p == normalize([defaults EXCEPT !.effectPct = e])
  IN  InList(evaluate(p, calc(p)), LowEffectNote)

\* C30: a click on a preset puts the effect of that preset into the form and
\* changes nothing else; in every state whose raw effect is that of
\* conservative the low-effect advisory is in the advisory list, with that of
\* low or ambitious it is not; and whether it is in the list is decided by
\* the raw effect alone, so that it stays as it is until effectPct is next
\* changed or the form is reset.
C30_PresetAndLowEffect ==
  /\ [](/\ state.effectPct = PresetEffect("conservative") => LowEffectShown
        /\ state.effectPct = PresetEffect("low") => ~LowEffectShown
        /\ state.effectPct = PresetEffect("ambitious") => ~LowEffectShown
        /\ LowEffectShown <=> ShownWithEffect(state.effectPct))
  /\ [][SelectScenario =>
          \E k \in DOMAIN ListedPresets :
            state' = [state EXCEPT !.effectPct = PresetEffect(k)]]_vars

\* conservative is selected and another field has been edited since the
\* last reset: the advisory is shown
C30_Witness ==
  /\ state.effectPct = PresetEffect("conservative")
  /\ edits = 2
  /\ \E f \in (DOMAIN state) \ {"effectPct"} : state[f] # defaults[f]
  /\ LowEffectShown

\* C25: whenever net > 0, paybackYears is a number and is strictly less than
\* capexAmortYears.
C25_PaybackWithinAmortization ==
  LET p == parsed
      r == calc(p)
  IN  Gt(r.net, Num(0)) =>
        (~IsNaN(r.paybackYears) /\ Lt(r.paybackYears, p.capexAmortYears))

\* an override in force makes the savings exceed the annual cost: payback is
\* positive and below the amortization period
C25_Witness ==
  LET p == parsed
      r == calc(p)
  IN  /\ Gt(r.net, Num(0))
      /\ Gt(p.capex, Num(0))
      /\ Gt(r.paybackYears, Num(0))
      /\ Lt(r.paybackYears, p.capexAmortYears)

====
